---- MODULE Spec2Model ----
(***************************************************************************)
(* Model of the per-frame simulation of src/ants.py: the MoveAI action of  *)
(* every player (MoveAI.step) followed by the layer's scheduled update     *)
(* (Main.__update): physics refresh and life decay, collision              *)
(* consequences, death marking, roster pruning and food respawn.           *)
(*                                                                         *)
(* Units.  Floats are modelled as exact fixed-point integers:              *)
(*   positions and radii in 1/PosScale of a pixel,                         *)
(*   movement vectors (what a strategy returns) in 1/VecScale,             *)
(*   life in 1/LifeScale of a life point,                                  *)
(*   dt in 1/TimeScale of a second.                                        *)
(* A position is <<x, y, fx, fy>>: x and y in position units plus the      *)
(* remainders fx and fy in 1/FineScale of a pixel, which hold what a       *)
(* displacement far below one position unit adds; the remainders stay far  *)
(* below one position unit, so they decide a comparison only on a tie.     *)
(* Floating-point rounding is not modelled; the one special value kept is  *)
(* NaN, which a strategy can hand back and which every comparison rejects. *)
(***************************************************************************)
EXTENDS Integers, Naturals, Sequences, FiniteSets, TLC

\* ------------------------------------------------------------- bounds
NumPlayers == 2
NumFood == 2
MaxTicks == 2

\* ------------------------------------------------------------- units
PosScale == 10
LifeScale == 100
TimeScale == 10
VecScale == 10000000
FineScale == 2 * VecScale

\* ------------------------------------------------------------- program constants
WIDTH == 800
HEIGHT == 800
MARGIN == 10
PLAYER_SIZE == 25
FOOD_SIZE == 12
FEEDER_SIZE == 80
\* MoveAI.__SPEED = 1.5, in position units
SPEED == (15 * PosScale) \div 10
\* the same speed for one vector unit, in remainder units
SpeedFine == (15 * FineScale) \div (10 * VecScale)
\* the off-screen coordinate given to a pruned player
OFFSCREEN == -100
\* 1e-6, the magnitude above which a movement vector is normalised
EpsNum == 1
EpsDen == 1000000

\* float('nan') as a coordinate: a value no position or vector otherwise takes
NaN == -99999999

\* ------------------------------------------------------------- entities
Players == 1..NumPlayers
Foods == (NumPlayers + 1)..(NumPlayers + NumFood)
FeederId == NumPlayers + NumFood + 1
Entities == Players \cup Foods \cup {FeederId}

TypeOf(e) == IF e \in Players THEN "Player" ELSE IF e \in Foods THEN "Food" ELSE "Feeder"

Radius2(e) == IF e \in Players THEN PLAYER_SIZE * PosScale
              ELSE IF e \in Foods THEN FOOD_SIZE * PosScale
              ELSE FEEDER_SIZE * PosScale

\* ------------------------------------------------------------- inputs
\* frame durations handed to the scheduled callbacks
DTs == {10, 40}

\* positions __rand_position can return (a subset of range(10, 790) squared)
\* <<10,10>> is the corner of the inset bounds; <<400,348>> is 52 from the feeder's
\* centre (inside its reach of 52.5); <<400,328>> is 20 from the latter
SpawnXY == { <<10, 10>>, <<400, 348>>, <<400, 328>> }
SpawnPts == { <<PosScale * q[1], PosScale * q[2], 0, 0>> : q \in SpawnXY }

\* values a strategy's update() can hand back
Num(v) == [num |-> TRUE, v |-> v]
NonNum == [num |-> FALSE, v |-> 0]
\* the zero vector, one of magnitude 5e-6, one of magnitude 5e-7, one with a NaN
Vectors == { <<0, 0>>, <<-30, -40>>, <<-3, -4>>, <<NaN, 0>> }
Returns == { [raises |-> TRUE, items |-> << >>] }
           \cup { [raises |-> FALSE, items |-> <<Num(1)>>] }
           \cup { [raises |-> FALSE, items |-> <<NonNum, NonNum>>] }
           \cup { [raises |-> FALSE, items |-> <<Num(v[1]), Num(v[2])>>] : v \in Vectors }

NoCall == [who |-> 0, ret |-> [raises |-> FALSE, items |-> << >>],
           obsPos |-> << >>, obsLife |-> << >>, obsFood |-> << >>]

VARIABLES
    roster,     \* Main.__players: the list of live players, in creation order
    hasAction,  \* per player: its MoveAI action is still attached
    position,   \* per entity: sprite position
    center,     \* per entity: cshape.center, what the collision manager reads
    life,       \* per entity: life
    pc,         \* where the frame is: "move", "update", "collide", "prune", "crashed"
    mover,      \* the player whose MoveAI.step runs next in this frame
    pending,    \* colliding pairs of this update not yet iterated
    dead,       \* dead_players of this update, not yet pruned
    dt,         \* the dt of the running update
    tick,       \* completed updates
    lastCall,   \* the strategy call of the latest MoveAI.step: arguments and result
    life0,      \* per entity: life on entry to the running update (life outside one)
    roster0     \* the roster on entry to the running update (the roster outside one)

vars == <<roster, hasAction, position, center, life, pc, mover, pending, dead, dt,
          tick, lastCall, life0, roster0>>

\* ------------------------------------------------------------- helpers
Abs(n) == IF n < 0 THEN -n ELSE n

Sqrt(n) == CHOOSE r \in 0..n : r * r = n

\* float arithmetic and comparison where an operand may be NaN
FAdd(a, b) == IF a = NaN \/ b = NaN THEN NaN ELSE a + b
FMul(a, b) == IF a = NaN \/ b = NaN THEN NaN ELSE a * b
FLess(a, b) == a # NaN /\ b # NaN /\ a < b

SeqOf(f, s) == [k \in 1..Len(s) |-> f[s[k]]]

InSeq(x, s) == \E k \in 1..Len(s) : s[k] = x

\* list.remove(x): drops the first occurrence
RemoveFirst(s, x) ==
    LET k == CHOOSE j \in 1..Len(s) : s[j] = x /\ \A h \in 1..(j - 1) : s[h] # x
    IN  SubSeq(s, 1, k - 1) \o SubSeq(s, k + 1, Len(s))

FoodSeq == [k \in 1..NumFood |-> NumPlayers + k]

\* a coordinate c with remainder f against a bound b in position units
FBelow(c, f, b) == FLess(c, b) \/ (c = b /\ f < 0)
FAbove(c, f, b) == FLess(b, c) \/ (c = b /\ f > 0)

\* CircleShape.overlaps: centre distance strictly below the sum of the radii
\* (Radius2 is the diameter, so both sides are doubled); on a tie of the position
\* units the remainders decide, by the sign of their first-order term
Overlaps(c, a, b) ==
    LET ddx == FAdd(c[a][1], FMul(-1, c[b][1]))
        ddy == FAdd(c[a][2], FMul(-1, c[b][2]))
        d2 == FMul(4, FAdd(FMul(ddx, ddx), FMul(ddy, ddy)))
        rr == Radius2(a) + Radius2(b)
    IN  \/ FLess(d2, rr * rr)
        \/ /\ d2 = rr * rr
           /\ ddx * (c[a][3] - c[b][3]) + ddy * (c[a][4] - c[b][4]) < 0

\* iter_all_collisions: every unordered pair of known objects that overlap
Collisions(c) == { pr \in SUBSET Entities :
                     /\ Cardinality(pr) = 2
                     /\ \A a \in pr : \A b \in pr \ {a} : Overlaps(c, a, b) }

\* 0.3 * dt, 2 * dt and 0.1 * dt in life units
Decay(d) == (3 * LifeScale * d) \div (10 * TimeScale)
\* the rate of the header comment (1 per second) in place of 2 * dt
DrainOnePerSecond(d) == (LifeScale * d) \div TimeScale
Drain(d) == (2 * LifeScale * d) \div TimeScale
\* a feeder that gives 1 per second in place of 0.1 * dt
FeedGainOnePerSecond(d) == (LifeScale * d) \div TimeScale
FeedGain(d) == (LifeScale * d) \div (10 * TimeScale)

OutOfBounds(p) ==
    \/ FBelow(p[1], p[3], MARGIN * PosScale)
    \/ FAbove(p[1], p[3], (WIDTH - MARGIN) * PosScale)
    \/ FBelow(p[2], p[4], MARGIN * PosScale)
    \/ FAbove(p[2], p[4], (HEIGHT - MARGIN) * PosScale)

\* the next player from k on, in scheduling order, that still has its action
NextMover(k, act) ==
    IF \E j \in k..NumPlayers : act[j]
    THEN CHOOSE j \in k..NumPlayers : act[j] /\ \A h \in k..(j - 1) : ~act[h]
    ELSE NumPlayers + 1

\* ------------------------------------------------------------- Init
Init ==
    /\ roster = [k \in 1..NumPlayers |-> k]
    /\ hasAction = [p \in Players |-> TRUE]
    /\ \E pp \in [Players -> SpawnPts], fp \in [Foods -> SpawnPts] :
         position = [e \in Entities |->
                        IF e \in Players THEN pp[e]
                        ELSE IF e \in Foods THEN fp[e]
                        ELSE <<(WIDTH \div 2) * PosScale, (HEIGHT \div 2) * PosScale,
                               0, 0>>]
    /\ center = [e \in Entities |-> <<0, 0, 0, 0>>]
    /\ life = [e \in Entities |-> IF e = FeederId THEN 0 ELSE LifeScale]
    /\ pc = "move"
    /\ mover = 1
    /\ pending = {}
    /\ dead = << >>
    /\ dt = 0
    /\ tick = 0
    /\ lastCall = NoCall
    /\ life0 = life
    /\ roster0 = roster

\* ------------------------------------------------------------- MoveAI.step
\* the try block: the strategy call and the unpacking of its result
Unpacked(ret) ==
    IF ret.raises \/ Len(ret.items) # 2
    THEN <<Num(0), Num(0)>>
    ELSE ret.items

\* the arithmetic after the try block raises on a non-number
StepRaises(ret) ==
    LET u == Unpacked(ret) IN ~u[1].num \/ ~u[2].num

\* normalisation and scaling by the speed: the displacement <<x, y, fx, fy>>.
\* A vector that is not normalised has a magnitude of at most 1e-6 (or a NaN),
\* so its product with the speed is a NaN or lies in the remainders.
Displacement(ret) ==
    LET u == Unpacked(ret)
        dx == u[1].v
        dy == u[2].v
        sq == FAdd(FMul(dx, dx), FMul(dy, dy))
        mag == IF sq = NaN THEN NaN ELSE Sqrt(sq)
    IN  IF FLess(EpsNum * VecScale, FMul(mag, EpsDen))
        THEN <<(dx * SPEED) \div mag, (dy * SPEED) \div mag, 0, 0>>
        ELSE <<IF dx = NaN THEN NaN ELSE 0, IF dy = NaN THEN NaN ELSE 0,
               IF dx = NaN THEN 0 ELSE dx * SpeedFine,
               IF dy = NaN THEN 0 ELSE dy * SpeedFine>>

\* position + displacement; a NaN coordinate has no remainder
MovedBy(p, d) ==
    LET x == FAdd(p[1], d[1])
        y == FAdd(p[2], d[2])
    IN  <<x, y, IF x = NaN THEN 0 ELSE p[3] + d[3], IF y = NaN THEN 0 ELSE p[4] + d[4]>>

MoveStep(ret) ==
    /\ pc = "move"
    /\ tick < MaxTicks
    /\ mover \in Players
    /\ lastCall' = [who |-> mover, ret |-> ret,
                    obsPos |-> SeqOf(position, roster),
                    obsLife |-> SeqOf(life, roster),
                    obsFood |-> SeqOf(position, FoodSeq)]
    /\ IF StepRaises(ret)
       THEN /\ pc' = "crashed"
            /\ UNCHANGED <<position, mover>>
       ELSE /\ position' = [position EXCEPT
                               ![mover] = MovedBy(@, Displacement(ret))]
            /\ mover' = NextMover(mover + 1, hasAction)
            /\ pc' = IF mover' \in Players THEN "move" ELSE "update"
    /\ UNCHANGED <<roster, hasAction, center, life, pending, dead, dt, tick, life0,
                   roster0>>

\* ------------------------------------------------------------- Main.__update
\* lines 156-162: refresh the collision shapes, decay the players' life
Refreshed(c, pos, ros) ==
    [e \in Entities |-> IF e \in Players /\ ~InSeq(e, ros) THEN c[e] ELSE pos[e]]

Decayed(l, ros, d) ==
    [e \in Entities |-> IF InSeq(e, ros) THEN l[e] - Decay(d) ELSE l[e]]

UpdateBegin(d) ==
    /\ pc = "update"
    /\ tick < MaxTicks
    /\ dt' = d
    /\ center' = Refreshed(center, position, roster)
    /\ life' = Decayed(life, roster, d)
    /\ pending' = Collisions(center')
    /\ pc' = "collide"
    /\ lastCall' = NoCall
    /\ life0' = life
    /\ roster0' = roster
    /\ UNCHANGED <<roster, hasAction, position, mover, dead, tick>>

\* the rules with the (Player, Food) branch crediting the wrong member
ApplyPairFoodCredited(l, c1, c2, d) ==
    IF TypeOf(c1) = "Player" /\ TypeOf(c2) = "Player"
    THEN IF l[c1] > 0 /\ l[c2] > 0 /\ Abs(l[c1] - l[c2]) > LifeScale
         THEN [l EXCEPT ![c1] = @ - Drain(d), ![c2] = @ - Drain(d)]
         ELSE l
    ELSE IF TypeOf(c1) = "Food" /\ TypeOf(c2) = "Player" /\ l[c1] > 0
    THEN [l EXCEPT ![c2] = @ + l[c1], ![c1] = 0]
    ELSE IF TypeOf(c1) = "Player" /\ TypeOf(c2) = "Food" /\ l[c2] > 0
    THEN [l EXCEPT ![c2] = @ + l[c1], ![c1] = 0]
    ELSE IF TypeOf(c1) = "Feeder" /\ TypeOf(c2) = "Player"
    THEN [l EXCEPT ![c2] = @ + FeedGain(d)]
    ELSE IF TypeOf(c1) = "Player" /\ TypeOf(c2) = "Feeder"
    THEN [l EXCEPT ![c1] = @ + FeedGain(d)]
    ELSE l

\* the rules with the food left untouched when it is eaten
ApplyPairFoodKept(l, c1, c2, d) ==
    IF TypeOf(c1) = "Player" /\ TypeOf(c2) = "Player"
    THEN IF l[c1] > 0 /\ l[c2] > 0 /\ Abs(l[c1] - l[c2]) > LifeScale
         THEN [l EXCEPT ![c1] = @ - Drain(d), ![c2] = @ - Drain(d)]
         ELSE l
    ELSE IF TypeOf(c1) = "Food" /\ TypeOf(c2) = "Player" /\ l[c1] > 0
    THEN [l EXCEPT ![c2] = @ + l[c1]]
    ELSE IF TypeOf(c1) = "Player" /\ TypeOf(c2) = "Food" /\ l[c2] > 0
    THEN [l EXCEPT ![c1] = @ + l[c2]]
    ELSE IF TypeOf(c1) = "Feeder" /\ TypeOf(c2) = "Player"
    THEN [l EXCEPT ![c2] = @ + FeedGain(d)]
    ELSE IF TypeOf(c1) = "Player" /\ TypeOf(c2) = "Feeder"
    THEN [l EXCEPT ![c1] = @ + FeedGain(d)]
    ELSE l

\* the rules without the last branch, (Player, Feeder)
ApplyPairFeederFirstOnly(l, c1, c2, d) ==
    IF TypeOf(c1) = "Player" /\ TypeOf(c2) = "Player"
    THEN IF l[c1] > 0 /\ l[c2] > 0 /\ Abs(l[c1] - l[c2]) > LifeScale
         THEN [l EXCEPT ![c1] = @ - Drain(d), ![c2] = @ - Drain(d)]
         ELSE l
    ELSE IF TypeOf(c1) = "Food" /\ TypeOf(c2) = "Player" /\ l[c1] > 0
    THEN [l EXCEPT ![c2] = @ + l[c1], ![c1] = 0]
    ELSE IF TypeOf(c1) = "Player" /\ TypeOf(c2) = "Food" /\ l[c2] > 0
    THEN [l EXCEPT ![c1] = @ + l[c2], ![c2] = 0]
    ELSE IF TypeOf(c1) = "Feeder" /\ TypeOf(c2) = "Player"
    THEN [l EXCEPT ![c2] = @ + FeedGain(d)]
    ELSE l

\* lines 166-179: the consequence of one colliding pair, presented as (c1, c2)
ApplyPair(l, c1, c2, d) ==
    IF TypeOf(c1) = "Player" /\ TypeOf(c2) = "Player"
    THEN IF l[c1] > 0 /\ l[c2] > 0 /\ Abs(l[c1] - l[c2]) > LifeScale
         THEN [l EXCEPT ![c1] = @ - Drain(d), ![c2] = @ - Drain(d)]
         ELSE l
    ELSE IF TypeOf(c1) = "Food" /\ TypeOf(c2) = "Player" /\ l[c1] > 0
    THEN [l EXCEPT ![c2] = @ + l[c1], ![c1] = 0]
    ELSE IF TypeOf(c1) = "Player" /\ TypeOf(c2) = "Food" /\ l[c2] > 0
    THEN [l EXCEPT ![c1] = @ + l[c2], ![c2] = 0]
    ELSE IF TypeOf(c1) = "Feeder" /\ TypeOf(c2) = "Player"
    THEN [l EXCEPT ![c2] = @ + FeedGain(d)]
    ELSE IF TypeOf(c1) = "Player" /\ TypeOf(c2) = "Feeder"
    THEN [l EXCEPT ![c1] = @ + FeedGain(d)]
    ELSE l

\* one iteration of the loop of line 165; the manager keeps its objects in a
\* set, so the order of the pairs and of the two members is unspecified
ProcessPair ==
    /\ pc = "collide"
    /\ \E pr \in pending : \E c1 \in pr : \E c2 \in pr \ {c1} :
         /\ life' = ApplyPair(life, c1, c2, dt)
         /\ pending' = pending \ {pr}
    /\ UNCHANGED <<roster, hasAction, position, center, pc, mover, dead, dt, tick,
                   lastCall, life0, roster0>>

\* lines 182-189: dead_players, in roster order; a player is appended once for
\* life <= 0 and once more for being out of bounds
\* the marking loop without its out-of-bounds test
RECURSIVE DeadPlayersLifeOnly(_, _, _)
DeadPlayersLifeOnly(ros, l, pos) ==
    IF ros = << >> THEN << >>
    ELSE LET p == Head(ros)
         IN  (IF l[p] <= 0 THEN <<p>> ELSE << >>)
             \o DeadPlayersLifeOnly(Tail(ros), l, pos)

\* marking that removes from the roster while it iterates it: the entry that
\* follows a dead player moves into its slot and is never looked at
RECURSIVE DeadPlayersSkipping(_, _, _)
DeadPlayersSkipping(ros, l, pos) ==
    IF ros = << >> THEN << >>
    ELSE LET p == Head(ros)
         IN  IF l[p] <= 0 \/ OutOfBounds(pos[p])
             THEN <<p>> \o (IF Len(ros) > 1
                            THEN DeadPlayersSkipping(Tail(Tail(ros)), l, pos)
                            ELSE << >>)
             ELSE DeadPlayersSkipping(Tail(ros), l, pos)

RECURSIVE DeadPlayers(_, _, _)
DeadPlayers(ros, l, pos) ==
    IF ros = << >> THEN << >>
    ELSE LET p == Head(ros)
         IN  (IF l[p] <= 0 THEN <<p>> ELSE << >>)
             \o (IF OutOfBounds(pos[p]) THEN <<p>> ELSE << >>)
             \o DeadPlayers(Tail(ros), l, pos)

MarkDead ==
    /\ pc = "collide"
    /\ pending = {}
    /\ dead' = DeadPlayers(roster, life, position)
    /\ pc' = "prune"
    /\ UNCHANGED <<roster, hasAction, position, center, life, mover, pending, dt, tick,
                   lastCall, life0, roster0>>

\* line 195: the dead player's MoveAI action is removed
StillAttached(act, p) == act
Detached(act, p) == [act EXCEPT ![p] = FALSE]

\* one iteration of the loop of lines 191-198; list.remove raises ValueError
\* when the player is no longer in the list
PruneStep ==
    /\ pc = "prune"
    /\ dead # << >>
    /\ LET p == Head(dead) IN
         IF InSeq(p, roster)
         THEN /\ roster' = RemoveFirst(roster, p)
              /\ hasAction' = Detached(hasAction, p)
              /\ position' = [position EXCEPT
                                 ![p] = <<OFFSCREEN * PosScale, OFFSCREEN * PosScale,
                                          0, 0>>]
              /\ dead' = Tail(dead)
              /\ pc' = "prune"
         ELSE /\ pc' = "crashed"
              /\ UNCHANGED <<roster, hasAction, position, dead>>
    /\ UNCHANGED <<center, life, mover, pending, dt, tick, lastCall, life0,
                   roster0>>

\* lines 201 and 204: the life of every food after the respawn loop
RespawnedNegativeOnly(l) ==
    [e \in Entities |-> IF e \in Foods /\ l[e] < 0 THEN LifeScale ELSE l[e]]
Respawned(l) ==
    [e \in Entities |-> IF e \in Foods /\ l[e] <= 0 THEN LifeScale ELSE l[e]]

\* lines 200-204: every food with life <= 0 gets a new random position and life 1;
\* the update returns and the next frame starts with the first attached action
Respawn ==
    /\ pc = "prune"
    /\ dead = << >>
    /\ \E np \in [{f \in Foods : life[f] <= 0} -> SpawnPts] :
         position' = [e \in Entities |->
                         IF e \in Foods /\ life[e] <= 0 THEN np[e] ELSE position[e]]
    /\ life' = Respawned(life)
    /\ tick' = tick + 1
    /\ mover' = NextMover(1, hasAction)
    /\ pc' = IF mover' \in Players THEN "move" ELSE "update"
    /\ life0' = life'
    /\ roster0' = roster
    /\ UNCHANGED <<roster, hasAction, center, pending, dead, dt, lastCall>>

Next ==
    \/ \E ret \in Returns : MoveStep(ret)
    \/ \E d \in DTs : UpdateBegin(d)
    \/ ProcessPair
    \/ MarkDead
    \/ PruneStep
    \/ Respawn

Spec == Init /\ [][Next]_vars

\* ------------------------------------------------------------- shared vocabulary
Rostered(p) == InSeq(p, roster)

\* the objects the collision manager reports as overlapping e in this update
Touching(e) == { o \in Entities \ {e} : Overlaps(center, e, o) }

\* the loop of line 165 has run to its end, death marking has not started
ConsequencesDone == pc = "collide" /\ pending = {}

\* the update has just refreshed the shapes: no pair has been iterated yet
ConsequencesStart == pc = "collide" /\ pending = Collisions(center)

\* ------------------------------------------------------------- C1
\* the amounts the claims speak of, 2 * dt and 0.3 * dt, in life units
Claimed2Dt == (2 * LifeScale * dt) \div TimeScale
Claimed03Dt == (3 * LifeScale * dt) \div (10 * TimeScale)

\* two rostered players that overlap each other and nothing else in this update
AlonePair(a, b) ==
    /\ a # b /\ Rostered(a) /\ Rostered(b)
    /\ Touching(a) = {b}
    /\ Touching(b) = {a}

FailedCall(ret) ==
    \/ ret.raises
    \/ Len(ret.items) # 2
    \/ \E k \in 1..Len(ret.items) : ~ret.items[k].num

\* a step of the model that is one MoveAI.step
IsMoveStep == pc = "move" /\ lastCall' # lastCall

\* C2 as stated: whenever the strategy call of a movement step fails, the step
\* leaves every position unchanged, the failure does not leave the step (the frame
\* is not aborted), and the frame goes on with the next player or the update.
C2_FailureIsZeroVector ==
    [][ (IsMoveStep /\ FailedCall(lastCall'.ret))
        => /\ position' = position
           /\ pc' # "crashed"
           /\ pc' \in {"move", "update"} ]_vars

\* ------------------------------------------------------------- C3
\* the consequence rules applied to a set of pairs in one fixed reference order
RECURSIVE ApplyInReferenceOrder(_, _, _)
ApplyInReferenceOrder(ps, l, d) ==
    IF ps = {} THEN l
    ELSE LET pr == CHOOSE x \in ps : TRUE
             c1 == CHOOSE x \in pr : TRUE
             c2 == CHOOSE x \in pr : x # c1
         IN  ApplyInReferenceOrder(ps \ {pr}, ApplyPair(l, c1, c2, d), d)

\* C3 as stated: whatever order the pairs of an update were iterated in, once all
\* of them are processed every life equals what the reference order gives from
\* the same starting lives (so any two orders agree).
C3_OrderIndependent ==
    ConsequencesDone =>
        life = ApplyInReferenceOrder(Collisions(center), Decayed(life0, roster, dt), dt)

\* ------------------------------------------------------------- C4
\* pruning has run to its end without an error; food respawn is next
PruneOver == pc = "prune" /\ dead = << >>

\* the inset bounds as the claims write them: a coordinate c with remainder f
\* is below 10 or above 790
ClaimedBeyond(c, f) ==
    \/ c < 10 * PosScale \/ (c = 10 * PosScale /\ f < 0)
    \/ c > 790 * PosScale \/ (c = 790 * PosScale /\ f > 0)

ClaimedInside(p) ==
    /\ p[1] # NaN /\ ~ClaimedBeyond(p[1], p[3])
    /\ p[2] # NaN /\ ~ClaimedBeyond(p[2], p[4])

ClaimedOutside(p) ==
    \/ (p[1] # NaN /\ ClaimedBeyond(p[1], p[3]))
    \/ (p[2] # NaN /\ ClaimedBeyond(p[2], p[4]))

\* C4 as stated: after pruning every rostered player has life > 0 and a position
\* inside the inset bounds, and no rostered player has life <= 0 when the
\* consequence processing of an update starts.
C4_AsStated ==
    /\ PruneOver =>
          \A p \in Players : Rostered(p) => life[p] > 0 /\ ClaimedInside(position[p])
    /\ ConsequencesStart =>
          \A p \in Players : Rostered(p) => life[p] > 0

\* C4 amended: after pruning every rostered player has life > 0 and a position
\* that is not outside the inset bounds, and a rostered player's life is <= 0
\* only inside an update, between the decay at its start and the pruning.
C4_AliveAfterPrune ==
    /\ PruneOver =>
          \A p \in Players : Rostered(p) => life[p] > 0 /\ ~ClaimedOutside(position[p])
    /\ pc \in {"move", "update"} =>
          \A p \in Players : Rostered(p) => life[p] > 0

\* pruning has removed a player of this update and left another in the roster
C4_Witness ==
    /\ PruneOver
    /\ roster # << >>
    /\ \E q \in Players : InSeq(q, roster0) /\ ~Rostered(q)

\* a rostered player enters the consequence processing with life <= 0
C4_DecayedBelowZero ==
    /\ ConsequencesStart
    /\ \E p \in Players : Rostered(p) /\ life[p] <= 0

\* ------------------------------------------------------------- C5
\* the death condition of the claim, on the position the update refreshed the
\* shape from (the position the marking loop read)
ClaimedDead(p) == life[p] <= 0 \/ ClaimedOutside(center[p])

\* the pruning loop has stopped: it ran to its end, or an error left it
PruneStopped == PruneOver \/ (pc = "crashed" /\ dead # << >>)

\* C5 as stated: when death evaluation has stopped, a player that was in the
\* roster when the update began is out of the roster if and only if its life is
\* <= 0 or its position is outside the inset bounds.
C5_RemovedIffDead ==
    PruneStopped =>
        \A p \in Players : InSeq(p, roster0) => (~Rostered(p) <=> ClaimedDead(p))

\* C5 restricted to updates whose pruning loop runs to its end (auxiliary: the
\* marking test itself is the one the claim gives)
C5_RemovedIffDeadWhenPruneCompletes ==
    PruneOver =>
        \A p \in Players : InSeq(p, roster0) => (~Rostered(p) <=> ClaimedDead(p))

\* ------------------------------------------------------------- C6
\* a step inside one update that is not its final respawn
InsideUpdate == pc \in {"collide", "prune"} /\ pc' \in {"collide", "prune", "crashed"}

\* the step that runs the respawn loop and ends the update
IsRespawn == pc = "prune" /\ pc' \in {"move", "update"}

\* C6: a food with life 0 keeps life 0 through the rest of the update's consequence
\* processing and pruning; the respawn loop at the end of the update gives every
\* food with life <= 0 life 1 and a position inside the inset bounds; so outside
\* an update, and when an update's consequence processing starts, every food has
\* life 1.
C6_ConsumedThenRespawned ==
    /\ [][ InsideUpdate =>
              \A f \in Foods : life[f] = 0 => life'[f] = 0 ]_vars
    /\ [][ IsRespawn =>
              \A f \in Foods : life[f] <= 0 =>
                  life'[f] = LifeScale /\ ClaimedInside(position'[f]) ]_vars
    /\ [](pc \in {"move", "update"} \/ ConsequencesStart =>
              \A f \in Foods : life[f] = LifeScale /\ ClaimedInside(position[f]))

\* a food eaten in the last update has been respawned at another place
C6_Witness ==
    /\ pc \in {"move", "update"}
    /\ tick >= 1
    /\ \E f \in Foods : position[f] # center[f] /\ life[f] = LifeScale

\* ------------------------------------------------------------- C7
\* C7: in every state every food's life is exactly 0 or exactly 1, and the
\* entities that are food are the NumFood ones created at startup.
C7_FoodLifeBinary ==
    /\ \A f \in Foods : life[f] \in {0, LifeScale}
    /\ Cardinality({e \in DOMAIN life : TypeOf(e) = "Food"}) = NumFood
    /\ Len(FoodSeq) = NumFood

\* in the middle of an update a food is consumed
C7_Witness ==
    /\ pc = "collide"
    /\ pending # {}
    /\ \E f \in Foods : life[f] = 0

\* ------------------------------------------------------------- C8
\* the pair the step has just iterated
IsPairStep == pc = "collide" /\ pending' # pending
IteratedPair == CHOOSE pr \in pending : pr \notin pending'

\* C8: a step that iterates a Player-Food pair whose food has life > 0 adds exactly
\* the food's life to the player and sets the food's life to 0, so the two lives
\* sum to the same before and after; when the food's life is 0 the step changes
\* neither life; and no step of the consequence processing raises a food's life,
\* so a food is eaten at most once per update.
C8_FoodTransfer ==
    [][ IsPairStep =>
          /\ \A p \in Players : \A f \in Foods :
                IteratedPair = {p, f} =>
                    IF life[f] > 0
                    THEN /\ life'[p] = life[p] + life[f]
                         /\ life'[f] = 0
                         /\ life'[p] + life'[f] = life[p] + life[f]
                    ELSE life'[p] = life[p] /\ life'[f] = life[f]
          /\ \A f \in Foods : life'[f] <= life[f] ]_vars

\* a food already eaten in this update still has a pair with a player to iterate
C8_Witness ==
    /\ pc = "collide"
    /\ \E f \in Foods : \E p \in Players :
          /\ life[f] = 0
          /\ {p, f} \in pending
          /\ \E q \in Players \ {p} : {q, f} \in Collisions(center) \ pending

\* ------------------------------------------------------------- C9
\* C9: for every pair of objects the collision manager reports in an update, the
\* rules give the same lives from the current ones whichever member is presented
\* first.
C9_PresentationOrder ==
    pc = "collide" =>
        \A pr \in Collisions(center) : \A a \in pr : \A b \in pr \ {a} :
            ApplyPair(life, a, b, dt) = ApplyPair(life, b, a, dt)

\* pairs of every kind that has a rule are waiting, each with an effect
C9_Witness ==
    /\ pc = "collide"
    /\ \E pr \in pending : \E a \in pr : \E b \in pr \ {a} :
          /\ TypeOf(a) = "Player" /\ TypeOf(b) = "Feeder"
          /\ ApplyPair(life, a, b, dt) # life
    /\ \E pr \in pending : \E a \in pr : \E b \in pr \ {a} :
          /\ TypeOf(a) = "Player" /\ TypeOf(b) = "Food"
          /\ ApplyPair(life, a, b, dt) # life

\* ------------------------------------------------------------- C10
\* C10: the roster never grows and a player out of it never comes back; every
\* strategy call is made for a player of the roster, and the positions and lives
\* it is handed are those of the roster's players, one entry each, none of them
\* the off-screen position of a removed player.
C10_RemovedForGood ==
    [][ /\ Len(roster') <= Len(roster)
        /\ \A p \in Players : ~InSeq(p, roster) => ~InSeq(p, roster')
        /\ IsMoveStep =>
              /\ InSeq(lastCall'.who, roster)
              /\ Len(lastCall'.obsPos) = Len(roster)
              /\ Len(lastCall'.obsLife) = Len(roster)
              /\ \A k \in 1..Len(roster) :
                    /\ lastCall'.obsPos[k] = position[roster[k]]
                    /\ lastCall'.obsLife[k] = life[roster[k]]
                    /\ lastCall'.obsPos[k] # <<-100 * PosScale, -100 * PosScale,
                                                0, 0>> ]_vars

\* a strategy is called after a player has been removed from the roster
C10_Witness ==
    /\ lastCall.who \in Players
    /\ \E q \in Players : ~Rostered(q)

\* ------------------------------------------------------------- C11
\* the movement of one MoveAI.step whose strategy returned a pair of finite
\* numbers, for a player standing at finite coordinates
FiniteMove ==
    /\ IsMoveStep
    /\ ~lastCall'.ret.raises /\ Len(lastCall'.ret.items) = 2
    /\ \A i \in 1..2 : lastCall'.ret.items[i].num /\ lastCall'.ret.items[i].v # NaN
    /\ position[lastCall'.who][1] # NaN /\ position[lastCall'.who][2] # NaN

\* the squared magnitude of the returned vector and of 1e-6, in vector units
ReturnedMag2 == lastCall'.ret.items[1].v * lastCall'.ret.items[1].v
                + lastCall'.ret.items[2].v * lastCall'.ret.items[2].v
ClaimedEps2 == (VecScale \div 1000000) * (VecScale \div 1000000)

\* the displacement has magnitude 1.5 and the direction of the returned vector
MovedAtSpeed ==
    LET w == lastCall'.who
        ex == position'[w][1] - position[w][1]
        ey == position'[w][2] - position[w][2]
        dx == lastCall'.ret.items[1].v
        dy == lastCall'.ret.items[2].v
    IN  /\ position'[w][3] = position[w][3] /\ position'[w][4] = position[w][4]
        /\ 100 * (ex * ex + ey * ey) = 225 * PosScale * PosScale
        /\ ex * dy = ey * dx
        /\ ex * dx + ey * dy > 0

\* C11 as stated: a returned vector of magnitude above 1e-6 displaces the player by
\* exactly 1.5 in the vector's direction; any other returned vector (zero or below
\* the threshold) displaces it by exactly (0, 0).
C11_NormalisedOrZero ==
    [][ FiniteMove =>
          IF ReturnedMag2 > ClaimedEps2
          THEN MovedAtSpeed
          ELSE position'[lastCall'.who] = position[lastCall'.who] ]_vars

\* the part of C11 the code keeps: above the threshold the displacement is exactly
\* 1.5 in the vector's direction, and the zero vector displaces by (0, 0)
C11_AboveThresholdOrZero ==
    [][ FiniteMove =>
          /\ ReturnedMag2 > ClaimedEps2 => MovedAtSpeed
          /\ ReturnedMag2 = 0 => position'[lastCall'.who] = position[lastCall'.who] ]_vars

\* ------------------------------------------------------------- C12
\* 0.1 * dt in life units, as the claim writes it
ClaimedTenthDt == (LifeScale * dt) \div (10 * TimeScale)

\* C12: no step changes the feeder's life, position or collision shape, and the
\* step that iterates a Player-Feeder pair adds exactly 0.1 * dt to that player's
\* life and changes no other life.
C12_FeederConstant ==
    [][ /\ life'[FeederId] = life[FeederId]
        /\ position'[FeederId] = position[FeederId]
        /\ center'[FeederId] \in {center[FeederId], position[FeederId]}
        /\ IsPairStep =>
              \A p \in Players :
                 IteratedPair = {p, FeederId} =>
                    /\ life'[p] = life[p] + ClaimedTenthDt
                    /\ \A e \in Entities \ {p} : life'[e] = life[e] ]_vars

\* a Player-Feeder pair has been iterated in the running update
C12_Witness ==
    /\ pc = "collide"
    /\ \E p \in Players :
          /\ {p, FeederId} \in Collisions(center) \ pending
          /\ life[p] > life0[p]

\* ------------------------------------------------------------- C13
\* the step that ends the consequence processing and evaluates the death condition
IsMarking == pc = "collide" /\ pc' = "prune"

\* C13: inside an update the phases follow one another in one order: the roster is
\* not changed while pairs are processed; the death condition is evaluated once no
\* pair is left, for every player of the roster at that moment, so a player is
\* marked exactly when its life is <= 0 or its position is outside the inset
\* bounds, whoever else is marked; players are removed only after the marking; and
\* food is respawned only when every marked player has been removed.
C13_PhaseOrder ==
    [][ /\ (pc = "collide" => roster' = roster /\ pc' \in {"collide", "prune"})
        /\ (IsMarking =>
              /\ pending = {}
              /\ \A p \in Players :
                    InSeq(p, dead') <=>
                       (Rostered(p) /\ (life[p] <= 0 \/ ClaimedOutside(position[p]))))
        /\ (roster' # roster => pc = "prune" /\ pending = {} /\ dead # << >>)
        /\ (pc = "prune" => pc' \in {"prune", "crashed", "move", "update"})
        /\ ((\E f \in Foods : life'[f] > life[f] \/ position'[f] # position[f])
              => IsRespawn /\ pending = {} /\ dead = << >>) ]_vars

\* both players of the roster were marked in one update and both have been removed
C13_Witness ==
    /\ PruneOver
    /\ Len(roster0) = 2
    /\ roster = << >>

\* ------------------------------------------------------------- C14
\* C14: a pruning step whose player has life <= 0 and a position outside the inset
\* bounds raises no error (the player leaves the roster once and the update goes
\* on to the food respawn).
C14_BothConditionsNoError ==
    [][ ( /\ pc = "prune" /\ dead # << >>
          /\ life[Head(dead)] <= 0
          /\ ClaimedOutside(position[Head(dead)]) )
        => pc' # "crashed" ]_vars

\* ------------------------------------------------------------- C15
\* C15: the life of a player that is out of the roster never changes, and a step
\* that iterates a pair with such a player changes no life at all (no food is
\* consumed, no rostered player loses life).
C15_RemovedPlayerInert ==
    [][ \A p \in Players :
          ~Rostered(p) =>
             /\ life'[p] = life[p]
             /\ (IsPairStep /\ p \in IteratedPair => life' = life) ]_vars

\* ------------------------------------------------------------- C16
\* C16: a strategy call that follows another one in the same frame is handed the
\* same player positions and lives as that one (stated for frames in which every
\* player stands at finite coordinates).
C16_SameObservation ==
    [][ ( /\ IsMoveStep /\ lastCall.who \in Players
          /\ \A p \in Players : position'[p][1] # NaN /\ position'[p][2] # NaN )
        => /\ lastCall'.obsPos = lastCall.obsPos
           /\ lastCall'.obsLife = lastCall.obsLife ]_vars

====
